---- MODULE Spec2Model ----
(***************************************************************************)
(* A model of the imf crate (src/lib.rs): the IMF struct, its coordinate   *)
(* accessors, the two text loaders (v1, v2) behind IMF::new, and the       *)
(* writer IMF::write.  Text is a sequence of one-character strings, so     *)
(* that formatting and parsing are computed character by character.        *)
(***************************************************************************)
EXTENDS Integers, Sequences, FiniteSets, TLC

VARIABLES
    imf,    \* Option<IMF>: <<>> before a model exists, <<m>> once built
    disk,   \* the file at the path: <<>> when absent, <<text>> when present
    ret,    \* what the last call returned (or that it panicked)
    log,    \* history: one entry per completed IMF::new / IMF::write call
    nsets,  \* number of set_xy calls made so far
    overflow_checks
            \* the build: TRUE when arithmetic overflow panics (the debug
            \* profile), FALSE when it wraps (the release profile)

vars == <<imf, disk, ret, log, nsets, overflow_checks>>

----------------------------------------------------------------------------
(* Bounds of the model. *)

\* set_xy calls explored per behaviour
MaxSets == 2
\* IMF::new / IMF::write calls explored per behaviour
MaxOps == 3
\* widths of the generated documents and models: 1..MaxDim
MaxDim == 3
\* the width of usize in bits.  usize is as wide as a pointer of the target
\* (16, 32 or 64 bits); the model takes the narrowest, the arithmetic is the
\* same at every width.
UsizeBits == 16

----------------------------------------------------------------------------
(* Option<T> is a sequence of length 0 (None) or 1 (Some(v)). *)

None == <<>>
Some(v) == <<v>>
IsSome(o) == Len(o) = 1

\* u8::MAX, the limit of the field version and of the colour components
U8Max == 255

\* usize::MAX
UsizeMax == 2 ^ UsizeBits - 1

\* a * b and a + b leave usize
MulOverflows(a, b) == a # 0 /\ b > UsizeMax \div a
AddOverflows(a, b) == b > UsizeMax - a

\* a * b and a + b as a build without overflow checks computes them: modulo
\* 2^UsizeBits.  (The product is taken in two halves of b, so that no
\* intermediate value leaves the range of the model checker's integers.)
WrapMul(a, b) ==
    (256 * ((a * (b \div 256)) % ((UsizeMax + 1) \div 256)) + a * (b % 256))
        % (UsizeMax + 1)
WrapAdd(a, b) == (a + b) % (UsizeMax + 1)

\* f as u8: a float-to-integer cast saturates at the bounds of the type
AsU8(f) == IF f > U8Max THEN U8Max ELSE IF f < 0 THEN 0 ELSE f

----------------------------------------------------------------------------
(* The struct and its constructor. *)

\* IMF::default(): the 10-entry legend, version 1, an 8x8 grid of 1s
DefaultColors ==
    (0 :> <<0, 0, 0>>) @@ (1 :> <<127, 127, 127>>) @@ (2 :> <<255, 255, 255>>) @@
    (3 :> <<255, 0, 0>>) @@ (4 :> <<255, 127, 0>>) @@ (5 :> <<255, 255, 0>>) @@
    (6 :> <<0, 255, 0>>) @@ (7 :> <<0, 0, 255>>) @@ (8 :> <<127, 0, 255>>) @@
    (9 :> <<255, 0, 255>>)

IMF_default ==
    [version |-> 1, colors |-> DefaultColors, width |-> 8, height |-> 8,
     map |-> [i \in 1..64 |-> 1]]

----------------------------------------------------------------------------
(* Coordinate accessors.  Vec indices are 0-based in the code, sequences  *)
(* are 1-based here: cell i of the Vec is map[i + 1].                      *)

\* Vec::get(i): None past the end
VecGet(v, i) == IF i >= 0 /\ i < Len(v) THEN Some(v[i + 1]) ELSE None

\* the call xy2i(x, y) panics: y * self.width + x leaves usize in a build
\* with overflow checks
xy2i_panics(self, x, y) ==
    /\ overflow_checks
    /\ ~(x > self.width \/ y > self.height)
    /\ \/ MulOverflows(y, self.width)
       \/ AddOverflows(WrapMul(y, self.width), x)

\* the value of xy2i(x, y) when the call returns
xy2i(self, x, y) ==
    IF x > self.width \/ y > self.height
    THEN None
    ELSE Some(WrapAdd(WrapMul(y, self.width), x))

\* i2xy with the test of the index off by one: what C9 is tested against
i2xy_inclusive(self, i) ==
    IF i <= Len(self.map)
    THEN Some(<<i % self.width, i \div self.width>>)
    ELSE None

i2xy(self, i) ==
    IF i < Len(self.map)
    THEN Some(<<i % self.width, i \div self.width>>)
    ELSE None

\* self.map.get(index).ok() on the Option that xy2i returned.  As written
\* the line hands Vec::get an Option<usize>; it is read here as what its
\* signature and documentation say: the cell at the index when xy2i gave
\* one and the map holds it, None otherwise.
GetAt(v, index) == IF IsSome(index) THEN VecGet(v, index[1]) ELSE None

\* the value of get_xy(x, y) when the call returns
get_xy(self, x, y) == GetAt(self.map, xy2i(self, x, y))

\* the messages of the panics
UnwrapNone == <<"called Option::unwrap() on a None value">>
Overflowed == <<"attempt to multiply or add with overflow">>

\* set_xy: [kind, self]; kind is "Ok", "Err" (xy2i gave None: ok_or()?)
\* or "Panic" (xy2i overflowed, or get_mut gave None: unwrap())
SetAt(self, index, i) ==
    IF ~IsSome(index)
    THEN [kind |-> "Err", msg |-> <<"Coordinates out of range!">>, self |-> self]
    ELSE IF ~IsSome(VecGet(self.map, index[1]))
    THEN [kind |-> "Panic", msg |-> UnwrapNone, self |-> self]
    ELSE [kind |-> "Ok", msg |-> <<>>,
          self |-> [self EXCEPT !.map[index[1] + 1] = i]]

set_xy(self, x, y, i) ==
    IF xy2i_panics(self, x, y)
    THEN [kind |-> "Panic", msg |-> Overflowed, self |-> self]
    ELSE SetAt(self, xy2i(self, x, y), i)

----------------------------------------------------------------------------
(* Text.  A &str is a sequence of one-character strings.                   *)

DigitChars == <<"0", "1", "2", "3", "4", "5", "6", "7", "8", "9">>
HexChars == DigitChars \o <<"a", "b", "c", "d", "e", "f">>
UpperHex == <<"A", "B", "C", "D", "E", "F">>

IsDigit(c) == \E d \in 1..10 : DigitChars[d] = c
DigitVal(c) == (CHOOSE d \in 1..10 : DigitChars[d] = c) - 1

\* [0-9a-fA-F]
IsHex(c) == (\E d \in 1..16 : HexChars[d] = c) \/ (\E d \in 1..6 : UpperHex[d] = c)
HexVal(c) ==
    IF \E d \in 1..16 : HexChars[d] = c
    THEN (CHOOSE d \in 1..16 : HexChars[d] = c) - 1
    ELSE (CHOOSE d \in 1..6 : UpperHex[d] = c) + 9

\* char::is_whitespace, on the characters of the model's alphabet
IsSpace(c) == c \in {" ", "\t", "\r", "\n"}

\* Display for integers: format!("{}", n)
RECURSIVE DecNat(_)
DecNat(n) ==
    IF n < 10 THEN <<DigitChars[n + 1]>>
    ELSE DecNat(n \div 10) \o <<DigitChars[(n % 10) + 1]>>

Display(n) == IF n < 0 THEN <<"-">> \o DecNat(-n) ELSE DecNat(n)

\* the value of a run of decimal digits
RECURSIVE DigitsValue(_)
DigitsValue(s) ==
    IF s = <<>> THEN 0
    ELSE 10 * DigitsValue(SubSeq(s, 1, Len(s) - 1)) + DigitVal(s[Len(s)])

AllDigits(s) == \A k \in 1..Len(s) : IsDigit(s[k])

\* i32::MAX
I32Max == 2147483647

\* str::parse::<u8>() / ::<usize>(): an optional '+', then one or more
\* digits; a value above the type's maximum is an error.
parse_unsigned(s, max) ==
    LET digits == IF s # <<>> /\ s[1] = "+" THEN Tail(s) ELSE s
    IN  IF digits = <<>> \/ ~AllDigits(digits) THEN None
        ELSE IF DigitsValue(digits) > max THEN None
        ELSE Some(DigitsValue(digits))

parse_u8(s) == parse_unsigned(s, U8Max)
parse_usize(s) == parse_unsigned(s, UsizeMax)

\* str::parse::<i32>(): an optional sign, then one or more digits
parse_i32(s) ==
    LET signed == s # <<>> /\ s[1] \in {"+", "-"}
        digits == IF signed THEN Tail(s) ELSE s
    IN  IF digits = <<>> \/ ~AllDigits(digits) THEN None
        ELSE IF DigitsValue(digits) > I32Max THEN None
        ELSE IF signed /\ s[1] = "-" THEN Some(-DigitsValue(digits))
        ELSE Some(DigitsValue(digits))

\* str::trim()
RECURSIVE trim_start(_)
trim_start(s) == IF s # <<>> /\ IsSpace(s[1]) THEN trim_start(Tail(s)) ELSE s
RECURSIVE trim_end(_)
trim_end(s) ==
    IF s # <<>> /\ IsSpace(s[Len(s)]) THEN trim_end(SubSeq(s, 1, Len(s) - 1)) ELSE s
trim(s) == trim_end(trim_start(s))

\* the first position of character c in s, 0 when there is none
Find(s, c) ==
    IF \E k \in 1..Len(s) : s[k] = c
    THEN CHOOSE k \in 1..Len(s) : s[k] = c /\ \A j \in 1..(k - 1) : s[j] # c
    ELSE 0

\* str::split(c): the pieces between the separators, empty pieces kept
RECURSIVE split(_, _)
split(s, c) ==
    LET k == Find(s, c)
    IN  IF k = 0 THEN <<s>>
        ELSE <<SubSeq(s, 1, k - 1)>> \o split(SubSeq(s, k + 1, Len(s)), c)

\* str::split_once(c)
split_once(s, c) ==
    LET k == Find(s, c)
    IN  IF k = 0 THEN None
        ELSE Some(<<SubSeq(s, 1, k - 1), SubSeq(s, k + 1, Len(s))>>)

\* str::lines(): split at '\n', without a final empty line, each line
\* without its trailing '\r'
DropLastEmpty(pieces) ==
    IF pieces[Len(pieces)] = <<>> THEN SubSeq(pieces, 1, Len(pieces) - 1) ELSE pieces

StripCr(line) ==
    IF line # <<>> /\ line[Len(line)] = "\r" THEN SubSeq(line, 1, Len(line) - 1)
    ELSE line

StripCrs(kept) == [k \in 1..Len(kept) |-> StripCr(kept[k])]

lines(s) == StripCrs(DropLastEmpty(split(s, "\n")))

\* String::push_str over a list of pieces
RECURSIVE concat(_)
concat(pieces) ==
    IF pieces = <<>> THEN <<>> ELSE pieces[1] \o concat(Tail(pieces))

\* str2vec: split at ',', trim, skip the empty items, parse each as i32;
\* the first item that is no number ends the call with an error
TrimAll(items) == [k \in 1..Len(items) |-> trim(items[k])]

ParseAll(kept) ==
    IF \E k \in 1..Len(kept) : ~IsSome(parse_i32(kept[k]))
    THEN [kind |-> "Err", val |-> <<>>, msg |-> <<"'{t}' is not a number!">>]
    ELSE [kind |-> "Ok", val |-> [k \in 1..Len(kept) |-> parse_i32(kept[k])[1]],
          msg |-> <<>>]

str2vec(str) ==
    ParseAll(SelectSeq(TrimAll(split(str, ",")), LAMBDA t : t # <<>>))

----------------------------------------------------------------------------
(* The four pattern searches of the loaders.  Regex::find / captures give  *)
(* the leftmost match; each quantifier is greedy.  An error of the regex   *)
(* engine itself (the Err(_) arms) is not modelled.                        *)

Leftmost(S) == CHOOSE i \in S : \A j \in S : i <= j

\* the end of the run of digits that starts at i: the first position from i
\* on that holds no digit (Len(s) + 1 when the run reaches the end)
DigitRunEnd(s, i) ==
    CHOOSE k \in i..(Len(s) + 1) :
        /\ k = Len(s) + 1 \/ ~IsDigit(s[k])
        /\ \A j \in i..(k - 1) : IsDigit(s[j])

\* the same for whitespace: \s*
SpaceRunEnd(s, i) ==
    CHOOSE k \in i..(Len(s) + 1) :
        /\ k = Len(s) + 1 \/ ~IsSpace(s[k])
        /\ \A j \in i..(k - 1) : IsSpace(s[j])

\* (?i)(?:\[v)(\d+)(?:]) matched at i
VersionMatchAt(s, i) ==
    /\ s[i] = "["
    /\ i + 2 <= Len(s)
    /\ s[i + 1] \in {"v", "V"}
    /\ LET j == DigitRunEnd(s, i + 2)
       IN  j > i + 2 /\ j <= Len(s) /\ s[j] = "]"

\* capture group 1 of the leftmost version marker: Some(digits), or None
VersionGroup(file, starts) ==
    IF starts = {} THEN None
    ELSE Some(SubSeq(file, Leftmost(starts) + 2,
                     DigitRunEnd(file, Leftmost(starts) + 2) - 1))

VersionCapture(file) ==
    VersionGroup(file, {i \in 1..Len(file) : VersionMatchAt(file, i)})

\* version.parse().ok() on the capture; Ok(None) without a marker
ParseVersion(version) == IF ~IsSome(version) THEN None ELSE parse_u8(version[1])

proc_version(file) == ParseVersion(VersionCapture(file))

\* \d+,\d+(?=\s*;) matched at i: the position after the match, 0 for none
DimTail(s, j, k) ==
    IF k > j + 1 /\ SpaceRunEnd(s, k) <= Len(s) /\ s[SpaceRunEnd(s, k)] = ";"
    THEN k ELSE 0

DimSecond(s, j) ==
    IF j > Len(s) \/ s[j] # "," THEN 0 ELSE DimTail(s, j, DigitRunEnd(s, j + 1))

DimMatchEnd(s, i) == IF ~IsDigit(s[i]) THEN 0 ELSE DimSecond(s, DigitRunEnd(s, i))

\* the matched text, or None
DimFind(file, starts) ==
    IF starts = {} THEN None
    ELSE Some(SubSeq(file, Leftmost(starts), DimMatchEnd(file, Leftmost(starts)) - 1))

\* proc_dim from the split on: dims is the match split at ','
ParseDims(dims) ==
    IF Len(dims) # 2
    THEN [kind |-> "Err", val |-> <<>>, msg |-> <<"Invalid amount of dimensions">>]
    ELSE IF ~IsSome(parse_usize(dims[1]))
    THEN [kind |-> "Err", val |-> <<>>, msg |-> <<"Width is not a number">>]
    ELSE IF ~IsSome(parse_usize(dims[2]))
    THEN [kind |-> "Err", val |-> <<>>, msg |-> <<"Height is not a number">>]
    ELSE [kind |-> "Ok", msg |-> <<>>,
          val |-> <<parse_usize(dims[1])[1], parse_usize(dims[2])[1]>>]

DimsOf(dim_str) ==
    IF ~IsSome(dim_str)
    THEN [kind |-> "Err", val |-> <<>>, msg |-> <<"Dimensions not found">>]
    ELSE ParseDims(split(dim_str[1], ","))

proc_dim(file) ==
    DimsOf(DimFind(file, {i \in 1..Len(file) : DimMatchEnd(file, i) # 0}))

\* one group \d+\([0-9a-fA-F]{6}\) matched at i: the position after it, 0 for none
GroupTail(s, j) ==
    IF /\ j + 7 <= Len(s)
       /\ s[j] = "("
       /\ \A k \in (j + 1)..(j + 6) : IsHex(s[k])
       /\ s[j + 7] = ")"
    THEN j + 8 ELSE 0

GroupEnd(s, i) ==
    IF i > Len(s) \/ ~IsDigit(s[i]) THEN 0 ELSE GroupTail(s, DigitRunEnd(s, i))

\* (...)+ from i on: the position after the last group of the run
RECURSIVE GroupsEnd(_, _)
GroupsEnd(s, i) == IF GroupEnd(s, i) = 0 THEN i ELSE GroupsEnd(s, GroupEnd(s, i))

\* colors_transform's Rgb::from_hex_str on "#RRGGBB": the three components
\* on the scale 0..255 (what get_red/green/blue return)
from_hex_str(hex) ==
    IF Len(hex) = 7 /\ hex[1] = "#" /\ \A k \in 2..7 : IsHex(hex[k])
    THEN Some(<<16 * HexVal(hex[2]) + HexVal(hex[3]),
                16 * HexVal(hex[4]) + HexVal(hex[5]),
                16 * HexVal(hex[6]) + HexVal(hex[7])>>)
    ELSE None

\* the tuple inserted for a colour: each component times 255, as u8
ColorEntry(rgb) == <<AsU8(rgb[1] * 255), AsU8(rgb[2] * 255), AsU8(rgb[3] * 255)>>

\* BTreeMap::insert
Insert(color_map, key, entry) ==
    [k \in (DOMAIN color_map) \cup {key} |-> IF k = key THEN entry ELSE color_map[k]]

\* one item "key(RRGGBB" of the list, split at '(': the key and the colour,
\* or the error that ends proc_cols
ColorItem(parts) ==
    IF ~IsSome(parts)
    THEN [kind |-> "Err", val |-> None,
          msg |-> <<"Incorrect formatting on line '{c})'">>]
    ELSE IF ~IsSome(parse_i32(parts[1][1]))
    THEN [kind |-> "Err", val |-> None, msg |-> <<"'{key_str}' not a number">>]
    ELSE IF ~IsSome(from_hex_str(<<"#">> \o parts[1][2]))
    THEN [kind |-> "Err", val |-> None, msg |-> <<"'{hex}' is not a valid hex code!">>]
    ELSE [kind |-> "Ok", msg |-> <<>>,
          val |-> <<parse_i32(parts[1][1])[1],
                    ColorEntry(from_hex_str(<<"#">> \o parts[1][2])[1])>>]

\* the loop of proc_cols over the items
RECURSIVE InsertColors(_, _)
InsertItem(item, rest, color_map) ==
    IF item.kind = "Err" THEN item
    ELSE InsertColors(rest, Insert(color_map, item.val[1], item.val[2]))

InsertColors(colors_list, color_map) ==
    IF colors_list = <<>> THEN [kind |-> "Ok", val |-> Some(color_map), msg |-> <<>>]
    ELSE InsertItem(ColorItem(split_once(colors_list[1], "(")), Tail(colors_list),
                    color_map)

\* the empty BTreeMap
EmptyColors == [k \in {} |-> <<0, 0, 0>>]

\* proc_cols: (\d+\([0-9a-fA-F]{6}\))+ ; Ok(None) when nothing matches
ColsFind(file, starts) ==
    IF starts = {} THEN None
    ELSE Some(SubSeq(file, Leftmost(starts), GroupsEnd(file, Leftmost(starts)) - 1))

ColorsOf(colors_str) ==
    IF ~IsSome(colors_str) THEN [kind |-> "Ok", val |-> None, msg |-> <<>>]
    ELSE InsertColors(SelectSeq(split(colors_str[1], ")"), LAMBDA p : p # <<>>),
                      EmptyColors)

proc_cols(file) ==
    ColorsOf(ColsFind(file, {i \in 1..Len(file) : GroupEnd(file, i) # 0}))

\* the end of the run of digits and commas that starts at i
ListRunEnd(s, i) ==
    CHOOSE k \in i..(Len(s) + 1) :
        /\ k = Len(s) + 1 \/ ~(IsDigit(s[k]) \/ s[k] = ",")
        /\ \A j \in i..(k - 1) : IsDigit(s[j]) \/ s[j] = ","

\* (?<=\[)(\d+,?)+(?=\]) matched at i: the position after the match, 0 for
\* none.  A "]" can only follow the whole run of digits and commas, and the
\* run is in (\d+,?)+ when it starts with a digit and no comma follows a comma.
MapTail(s, i, k) ==
    IF /\ k <= Len(s)
       /\ s[k] = "]"
       /\ \A j \in (i + 1)..(k - 1) : ~(s[j] = "," /\ s[j - 1] = ",")
    THEN k ELSE 0

MapMatchEnd(s, i) ==
    IF i < 2 \/ s[i - 1] # "[" \/ ~IsDigit(s[i]) THEN 0
    ELSE MapTail(s, i, ListRunEnd(s, i))

MapFind(file, starts) ==
    IF starts = {} THEN None
    ELSE Some(SubSeq(file, Leftmost(starts), MapMatchEnd(file, Leftmost(starts)) - 1))

\* proc_map from str2vec on: the check of the length against w * h
CheckLen(map_arr, w, h) ==
    IF map_arr.kind = "Err" THEN map_arr
    ELSE IF overflow_checks /\ MulOverflows(w, h)
    THEN [kind |-> "Panic", val |-> <<>>, msg |-> Overflowed]
    ELSE IF Len(map_arr.val) # WrapMul(w, h)
    THEN [kind |-> "Err", val |-> <<>>,
          msg |-> IF Len(map_arr.val) < WrapMul(w, h)
                  THEN <<"Too many numbers in list">>
                  ELSE <<"Too few numbers in list">>]
    ELSE [kind |-> "Ok", val |-> map_arr.val, msg |-> <<>>]

MapOf(map_str, w, h) ==
    IF ~IsSome(map_str)
    THEN [kind |-> "Err", val |-> <<>>, msg |-> <<"Integer list not found">>]
    ELSE CheckLen(str2vec(map_str[1]), w, h)

proc_map(file, w, h) ==
    MapOf(MapFind(file, {i \in 1..Len(file) : MapMatchEnd(file, i) # 0}), w, h)

----------------------------------------------------------------------------
(* The loaders.  A call ends as "Ok" (val holds the IMF), as "Err" (msg     *)
(* holds the message, piece by piece as format! builds it) or as "Panic".  *)

Failed(kind, msg) == [kind |-> kind, val |-> None, msg |-> msg]

TooManyOrFew(len, correct_size) ==
    IF len > correct_size THEN <<"::Map: Too many numbers in list">>
    ELSE <<"::Map: Too few numbers in list">>

\* load_v1 from the check of the size on
V1Sized(i, width, height, map_arr) ==
    IF map_arr.kind = "Err" THEN Failed("Err", <<"::Map: ">> \o map_arr.msg)
    ELSE IF overflow_checks /\ MulOverflows(width, height)
    THEN Failed("Panic", Overflowed)
    ELSE IF Len(map_arr.val) # WrapMul(width, height)
    THEN Failed("Err", TooManyOrFew(Len(map_arr.val), WrapMul(width, height)))
    ELSE [kind |-> "Ok", msg |-> <<>>,
          val |-> Some([i EXCEPT !.width = width, !.height = height,
                                 !.map = map_arr.val])]

\* load_v1 on the non-blank lines of the file
V1Lines(i, lns) ==
    IF Len(lns) < 1 THEN Failed("Panic", UnwrapNone)
    ELSE IF ~IsSome(parse_usize(lns[1]))
    THEN Failed("Err", <<"::Dimensions: Width not a number">>)
    ELSE IF Len(lns) < 2 THEN Failed("Panic", UnwrapNone)
    ELSE IF ~IsSome(parse_usize(lns[2]))
    THEN Failed("Err", <<"::Dimensions: Height not a number">>)
    ELSE V1Sized(i, parse_usize(lns[1])[1], parse_usize(lns[2])[1],
                 str2vec(concat(SubSeq(lns, 3, Len(lns)))))

load_v1(i, file) ==
    V1Lines(i, SelectSeq(split(file, "\n"), LAMBDA line : trim(line) # <<>>))

\* proc_map, called only once proc_cols and proc_dim have succeeded
V2Map(clean_file, col_map, dim) ==
    IF col_map.kind = "Err" \/ dim.kind = "Err" THEN dim
    ELSE proc_map(clean_file, dim.val[1], dim.val[2])

\* load_v2 from the three extractions on
V2Parts(i, col_map, dim, map) ==
    IF col_map.kind = "Err" THEN Failed("Err", <<"::Colors: ">> \o col_map.msg)
    ELSE IF dim.kind = "Err" THEN Failed("Err", <<"::Dimensions: ">> \o dim.msg)
    ELSE IF map.kind = "Err" THEN Failed("Err", <<"::Map: ">> \o map.msg)
    ELSE IF map.kind = "Panic" THEN Failed("Panic", map.msg)
    ELSE [kind |-> "Ok", msg |-> <<>>,
          val |-> Some([i EXCEPT
              !.width = dim.val[1], !.height = dim.val[2], !.map = map.val,
              !.colors = IF IsSome(col_map.val) THEN col_map.val[1] ELSE @])]

V2Clean(i, clean_file) ==
    V2Parts(i, proc_cols(clean_file), proc_dim(clean_file),
            V2Map(clean_file, proc_cols(clean_file), proc_dim(clean_file)))

load_v2(i, file) == V2Clean(i, concat(lines(file)))

\* the result of a loader under the name of its arm: map_err prefixes the
\* message of an Err
Routed(route, prefix, r) ==
    [kind |-> r.kind, val |-> r.val, route |-> route,
     msg |-> IF r.kind = "Err" THEN <<prefix>> \o r.msg ELSE r.msg]

\* the match on the version
Dispatch(file_str, version) ==
    IF version = 1
    THEN Routed("v1", "IMF::LoadV1",
                load_v1([IMF_default EXCEPT !.version = version], file_str))
    ELSE IF version = 2
    THEN Routed("v2", "IMF::LoadV2",
                load_v2([IMF_default EXCEPT !.version = version], file_str))
    ELSE [kind |-> "Err", val |-> None, route |-> "incompatible",
          msg |-> <<"Incompatible IMF version!">>]

\* .unwrap_or_else(|| 1)
UnwrapOr1(parsed) == IF IsSome(parsed) THEN parsed[1] ELSE 1

\* IMF::new on the content of the file (None: the file cannot be read).
\* route is the arm of the match on the version that ran.
IMF_new(file) ==
    IF ~IsSome(file)
    THEN [kind |-> "Err", val |-> None, route |-> "",
          msg |-> <<"Failed to read file '{path}': \n\t{e}">>]
    ELSE Dispatch(file[1], UnwrapOr1(proc_version(file[1])))

----------------------------------------------------------------------------
(* The writer.                                                             *)

\* Rgb::to_css_hex_string without the '#': two lower-case hex digits a byte
HexByte(b) == <<HexChars[(b \div 16) + 1], HexChars[(b % 16) + 1]>>
to_css_hex(rgb) == HexByte(rgb[1]) \o HexByte(rgb[2]) \o HexByte(rgb[3])

\* the loop over self.colors, a BTreeMap: ascending keys
RECURSIVE write_colors(_, _)
write_colors(colors, keys) ==
    IF keys = {} THEN <<>>
    ELSE LET index == CHOOSE k \in keys : \A j \in keys : k <= j
         IN  Display(index) \o <<"(">> \o to_css_hex(colors[index]) \o <<")", "\n">>
                 \o write_colors(colors, keys \ {index})

\* the loops over y and x: [panic, text]; panic when an unwrap() meets None,
\* text is what reached the file before
Then(text, rest) == [panic |-> rest.panic, text |-> text \o rest.text]

RECURSIVE write_row(_, _, _)
WriteCell(self, y, x, cell) ==
    IF ~IsSome(cell) THEN [panic |-> TRUE, text |-> <<>>]
    ELSE Then(Display(cell[1]) \o <<",">>, write_row(self, y, x + 1))

write_row(self, y, x) ==
    IF x >= self.width THEN [panic |-> FALSE, text |-> <<"\n">>]
    ELSE IF xy2i_panics(self, x, y) THEN [panic |-> TRUE, text |-> <<>>]
    ELSE WriteCell(self, y, x, GetAt(self.map, xy2i(self, x, y)))

RECURSIVE write_rows(_, _)
NextRows(self, y, row) ==
    IF row.panic THEN row ELSE Then(row.text, write_rows(self, y + 1))

write_rows(self, y) ==
    IF y >= self.height THEN [panic |-> FALSE, text |-> <<>>]
    ELSE NextRows(self, y, write_row(self, y, 0))

\* IMF::write from the match on the version on: [kind, file]; file is the
\* content of the path afterwards.  File::create has come first: it creates
\* the file, or truncates the one that is there.
WriteVersion(self, rows) ==
    IF self.version = 1
    THEN [kind |-> IF rows.panic THEN "Panic" ELSE "Ok",
          file |-> Some(Display(self.width) \o <<"\n">>
                        \o Display(self.height) \o <<"\n">> \o rows.text)]
    ELSE IF self.version = 2
    THEN [kind |-> IF rows.panic THEN "Panic" ELSE "Ok",
          file |-> Some(<<"[", "v", "2", "]", "\n">>
                        \o Display(self.width) \o <<",">> \o Display(self.height)
                        \o <<";", "\n">>
                        \o write_colors(self.colors, DOMAIN self.colors)
                        \o <<"[", "\n">> \o rows.text
                        \o (IF rows.panic THEN <<>> ELSE <<"]", "\n">>))]
    ELSE [kind |-> "Ok", file |-> Some(<<>>)]

write(self) == WriteVersion(self, write_rows(self, 0))

----------------------------------------------------------------------------
(* The inputs: the texts handed to IMF::new and the models handed to       *)
(* IMF::write.                                                             *)

NL == <<"\n">>

\* the k-th sample cell value: 5, 10, 2, 7, 12, 4, 9, 1, ...
Cell(k) == (5 * k) % 13

\* n sample cells; with neg, every second one is negative
Cells(n, neg) == [k \in 1..n |-> IF neg /\ k % 2 = 0 THEN -Cell(k) ELSE Cell(k)]

ListText(cells) == concat([k \in 1..Len(cells) |-> Display(cells[k]) \o <<",">>])

Tag(n) == <<"[", "v">> \o Display(n) \o <<"]">>

V1Text(w, h, cells) ==
    Display(w) \o NL \o Display(h) \o NL \o ListText(cells) \o NL

V2Text(tag, w, h, legend, cells) ==
    tag \o NL \o Display(w) \o <<",">> \o Display(h) \o <<";">> \o NL
        \o legend \o <<"[">> \o NL \o ListText(cells) \o NL \o <<"]">> \o NL

Dims == (1..MaxDim) \X (1..2)

\* cell counts around width*height: one fewer, exact, one more
Counts(d) == {n \in {d[1] * d[2] - 1, d[1] * d[2], d[1] * d[2] + 1} : n >= 0}

Legend1 == <<"1", "(", "7", "f", "7", "f", "7", "f", ")">>
Legend2 == <<"0", "(", "0", "0", "0", "0", "0", "0", ")", "\n",
             "2", "(", "f", "f", "F", "F", "0", "0", ")">>
Legend3 == <<"3", "(", "f", "f", "0", "0", "0", "0", ")",
             "3", "(", "0", "0", "f", "f", "0", "1", ")">>
Legend4 == <<"1", "2", "(", "0", "a", "0", "B", "0", "c", ")", "\n">>
Legends == {Legend1, Legend2, Legend3, Legend4}

CountDocs ==
    {V1Text(d[1], d[2], Cells(n, FALSE)) : <<d, n>> \in {<<d, n>> \in Dims \X (0..(2 * MaxDim + 1)) : n \in Counts(d)}}
    \cup
    {V2Text(Tag(2), d[1], d[2], <<>>, Cells(n, FALSE)) : <<d, n>> \in {<<d, n>> \in Dims \X (0..(2 * MaxDim + 1)) : n \in Counts(d)}}

LegendDocs == {V2Text(Tag(2), 2, 1, l, Cells(2, FALSE)) : l \in Legends}

\* version markers: supported, unsupported, and too large for a u8
Versions == {0, 1, 2, 3, 255, 256, 300}

VersionDocs ==
    {Tag(n) \o NL \o V1Text(1, 2, Cells(2, FALSE)) : n \in Versions}
    \cup {V2Text(Tag(n), 1, 2, Legend1, Cells(2, FALSE)) : n \in Versions}
    \cup {V1Text(1, 2, Cells(2, FALSE)) \o Tag(n) : n \in {2, 3, 300}}
    \cup {V2Text(<<"[", "V", "2", "]">>, 1, 2, <<>>, Cells(2, FALSE))}

NegativeDocs ==
    {V1Text(2, 1, Cells(2, TRUE)), V2Text(Tag(2), 2, 1, <<>>, Cells(2, TRUE))}

\* texts that are no document of either dialect
MalformedDocs ==
    { <<>>,
      <<"\n">>,
      <<" ", "\n", "\n">>,
      <<"2">>,
      <<"2", "\n">>,
      <<"2", "\n", "2">>,
      <<"0", "\n", "0", "\n">>,
      <<"x", "\n", "2", "\n">>,
      <<"x">>,
      <<"2", "\n", "x", "\n", "1", ",">>,
      <<" ", "2", "\n", "1", "\n", "1", ",", "2", ",">>,
      <<"-", "1", "\n", "1", "\n">>,
      <<"+", "1", "\n", "1", "\n", " ", "7", " ", ",", "\n">>,
      <<"1", "\n", "2", "\n", "1", ",", "x", ",">>,
      <<"1", "\n", "2", "\n", "1", "\n", "2">>,
      <<"1", "\n", "2", "\n", "1", ",", "\n", "\n", "2", ",", ",">>,
      Tag(2),
      Tag(2) \o <<"3", ",", "2", ";">>,
      Tag(2) \o <<"[", "1", ",", "2", ",", "]">>,
      Tag(2) \o <<"2", ",", "1", ";", "[", "1", ",", " ", "2", "]">>,
      Tag(2) \o <<"2", ",", "1", " ", ";", "[", "1", ",", "2", "]">>,
      Tag(2) \o <<"2", ",", "1", "[", "1", ",", "2", "]">>,
      Tag(2) \o <<"2", ",", "1", ";", "[", "1", ",", ",", "2", "]">>,
      Tag(2) \o <<"2", ",", "1", ";", "[", "1", ",", "2">>,
      Tag(2) \o <<"2", ",", "1", ";", "[", "]">>,
      Tag(2) \o <<"0", ",", "0", ";", "[", "1", "]">>,
      Tag(2) \o <<"9", ",", "1", ",", "1", ";", "[", "5", "]">>,
      <<"[", "v", "]", "1", "\n", "1", "\n", "5", ",">> }

\* a width whose double leaves usize: usize::MAX / 2 + 2
Wide == (UsizeMax + 1) \div 2 + 1

\* documents of width Wide and height 2 with two cells, as many as the
\* wrapped product Wide * 2 counts
WideDocs ==
    {V1Text(Wide, 2, Cells(2, FALSE)), V2Text(Tag(2), Wide, 2, <<>>, Cells(2, FALSE))}

\* a width past usize::MAX
HugeDocs == {V1Text(UsizeMax + 1, 1, Cells(1, FALSE))}

Docs ==
    CountDocs \cup LegendDocs \cup VersionDocs \cup NegativeDocs \cup MalformedDocs
        \cup WideDocs \cup HugeDocs

\* what the path holds before a write, in the runs that start from a model
OldText == V1Text(1, 1, <<9>>)

Legendary == {DefaultColors, EmptyColors, (1 :> <<255, 0, 0>>),
              (2 :> <<0, 255, 255>>) @@ (-1 :> <<0, 0, 16>>)}

\* the well-formed models: map of length width*height
Models ==
    {[version |-> v, colors |-> c, width |-> d[1], height |-> d[2],
      map |-> Cells(d[1] * d[2], neg)] :
        v \in 0..3, c \in Legendary, d \in Dims, neg \in BOOLEAN}
    \cup {IMF_default, [IMF_default EXCEPT !.version = 2]}

----------------------------------------------------------------------------
(* The calls, as actions.                                                  *)

NoRet == [op |-> "", args |-> <<>>, kind |-> "Ok", val |-> <<>>, msg |-> <<>>,
          route |-> ""]

\* a panic unwinds the caller: nothing runs after it
Running == ret.kind # "Panic"

\* what the caller holds after IMF::new returned r
Returned(r) ==
    /\ imf' = IF r.kind = "Ok" THEN r.val ELSE imf
    /\ ret' = [op |-> "new", args |-> <<>>, kind |-> r.kind, val |-> <<>>,
               msg |-> r.msg, route |-> r.route]
    /\ log' = Append(log, [op |-> "new", kind |-> r.kind,
                           version |-> IF r.kind = "Ok" THEN r.val[1].version ELSE 0,
                           text |-> IF IsSome(disk) THEN disk[1] ELSE <<>>])

\* imf = IMF::new(path)
New ==
    /\ Running
    /\ Len(log) < MaxOps
    /\ Returned(IMF_new(disk))
    /\ UNCHANGED <<disk, nsets, overflow_checks>>

\* the path and the caller after imf.write returned r
Written(r) ==
    /\ disk' = r.file
    /\ ret' = [op |-> "write", args |-> <<>>, kind |-> r.kind, val |-> <<>>,
               msg |-> <<>>, route |-> ""]
    /\ log' = Append(log, [op |-> "write", kind |-> r.kind,
                           version |-> imf[1].version, text |-> r.file[1]])

\* imf.write(path)
Write ==
    /\ Running
    /\ IsSome(imf)
    /\ Len(log) < MaxOps
    /\ Written(write(imf[1]))
    /\ UNCHANGED <<imf, nsets, overflow_checks>>

\* the coordinates and indices tried on a side of length n: both ends, and
\* the two values past the far end
Coords(n) == {c \in {0, 1, n - 1, n, n + 1} : c >= 0}

\* the values written by set_xy
Vals == {-3}

\* an Option returned by an accessor: val is <<>> for None, <<v>> for Some(v)
Answer(op, args, r) ==
    [op |-> op, args |-> args, kind |-> IF IsSome(r) THEN "Some" ELSE "None",
     val |-> r, msg |-> <<>>, route |-> ""]

\* the same, or the panic of the call
Called(op, args, panics, r) ==
    IF panics
    THEN [op |-> op, args |-> args, kind |-> "Panic", val |-> <<>>,
          msg |-> Overflowed, route |-> ""]
    ELSE Answer(op, args, r)

\* the caller after set_xy returned r
Assigned(args, r) ==
    /\ imf' = Some(r.self)
    /\ ret' = [op |-> "set_xy", args |-> args, kind |-> r.kind, val |-> <<>>,
               msg |-> r.msg, route |-> ""]

XY2I ==
    /\ Running
    /\ IsSome(imf)
    /\ \E x \in Coords(imf[1].width), y \in Coords(imf[1].height) :
          ret' = Called("xy2i", <<x, y>>, xy2i_panics(imf[1], x, y),
                        xy2i(imf[1], x, y))
    /\ UNCHANGED <<imf, disk, log, nsets, overflow_checks>>

I2XY ==
    /\ Running
    /\ IsSome(imf)
    /\ \E i \in Coords(Len(imf[1].map)) :
          ret' = Answer("i2xy", <<i>>, i2xy(imf[1], i))
    /\ UNCHANGED <<imf, disk, log, nsets, overflow_checks>>

GetXY ==
    /\ Running
    /\ IsSome(imf)
    /\ \E x \in Coords(imf[1].width), y \in Coords(imf[1].height) :
          ret' = Called("get_xy", <<x, y>>, xy2i_panics(imf[1], x, y),
                        get_xy(imf[1], x, y))
    /\ UNCHANGED <<imf, disk, log, nsets, overflow_checks>>

SetXY ==
    /\ Running
    /\ IsSome(imf)
    /\ nsets < MaxSets
    /\ \E x \in Coords(imf[1].width), y \in Coords(imf[1].height), i \in Vals :
          Assigned(<<x, y, i>>, set_xy(imf[1], x, y, i))
    /\ nsets' = nsets + 1
    /\ UNCHANGED <<disk, log, overflow_checks>>

----------------------------------------------------------------------------
(* Spec: loading and writing.  A run starts either with a text at the path *)
(* and no model yet, or with a model and a path that is absent or holds an *)
(* older file.                                                             *)

Init ==
    /\ overflow_checks \in BOOLEAN
    /\ \/ imf = None /\ disk \in {None} \cup {Some(d) : d \in Docs}
       \/ imf \in {Some(m) : m \in Models} /\ disk \in {None, Some(OldText)}
    /\ ret = NoRet
    /\ log = <<>>
    /\ nsets = 0

Next == New \/ Write

Spec == Init /\ [][Next]_vars

(* SpecGrid: the accessors, on the grid of IMF::default() and on the grids *)
(* of successful v1 and v2 loads.                                          *)

GridDocs ==
    {V1Text(2, 2, Cells(4, TRUE)), V1Text(3, 1, Cells(3, FALSE)),
     V2Text(Tag(2), 3, 2, Legend2, Cells(6, FALSE)),
     V2Text(Tag(2), 1, 2, <<>>, Cells(2, FALSE))}
    \cup WideDocs

InitGrid ==
    /\ overflow_checks \in BOOLEAN
    /\ imf \in {Some(IMF_default)}
               \cup {IMF_new(Some(d)).val : d \in {g \in GridDocs : IMF_new(Some(g)).kind = "Ok"}}
    /\ disk = None
    /\ ret = NoRet
    /\ log = <<>>
    /\ nsets = 0

NextGrid == XY2I \/ I2XY \/ GetXY \/ SetXY

SpecGrid == InitGrid /\ [][NextGrid]_vars

----------------------------------------------------------------------------
(* The claims.                                                             *)

\* the valid coordinates of the spec: 0 <= x < width and 0 <= y < height
InRange(self, x, y) == x >= 0 /\ x < self.width /\ y >= 0 /\ y < self.height

\* C1: xy2i(x, y) and get_xy(x, y) return a value if and only if (x, y) is
\* in range, and the value is the index y*width+x, resp. the cell stored at
\* that index; every other pair, x == width and y == height included, gives
\* None.
C1_ValueIffInRange ==
    (IsSome(imf) /\ ret.op \in {"xy2i", "get_xy"}) =>
        /\ (ret.kind = "Some") <=> InRange(imf[1], ret.args[1], ret.args[2])
        /\ (ret.kind = "Some" /\ ret.op = "xy2i") =>
               ret.val[1] = ret.args[2] * imf[1].width + ret.args[1]
        /\ (ret.kind = "Some" /\ ret.op = "get_xy") =>
               ret.val[1] = imf[1].map[ret.args[2] * imf[1].width + ret.args[1] + 1]

\* C2: set_xy(x, y, v) with (x, y) out of range returns an error, does not
\* panic, and leaves the map, the width, the height and the legend as they
\* were.
C2_OutOfRangeSetIsError ==
    [][(/\ nsets' = nsets + 1
        /\ ret'.op = "set_xy"
        /\ ~InRange(imf[1], ret'.args[1], ret'.args[2]))
       => (ret'.kind = "Err" /\ imf' = imf)]_vars

SaysTooMany(msg) ==
    \E k \in 1..Len(msg) :
        msg[k] \in {"Too many numbers in list", "::Map: Too many numbers in list"}

SaysTooFew(msg) ==
    \E k \in 1..Len(msg) :
        msg[k] \in {"Too few numbers in list", "::Map: Too few numbers in list"}

\* the v1 and the v2 document of d[1] x d[2] with n cells
CountDoc(dialect, d, n) ==
    IF dialect = 1 THEN V1Text(d[1], d[2], Cells(n, FALSE))
    ELSE V2Text(Tag(2), d[1], d[2], <<>>, Cells(n, FALSE))

\* C3: in both dialects a document with more cells than width*height fails
\* to load with a message saying "too many", one with fewer cells (here: at
\* least one) with a message saying "too few".
C3_CountMismatchMessage ==
    \A dialect \in {1, 2}, d \in Dims :
        \A n \in Counts(d) \ {0} :
            (ret.op = "new" /\ disk = Some(CountDoc(dialect, d, n))) =>
                /\ n > d[1] * d[2] => (ret.kind = "Err" /\ SaysTooMany(ret.msg))
                /\ n < d[1] * d[2] => (ret.kind = "Err" /\ SaysTooFew(ret.msg))

\* C4: for a model of version 1 or 2, write, then load, then write again
\* gives the text of the first write: the load succeeds and the second text
\* equals the first.
C4_RoundTrip ==
    \A k \in 1..(Len(log) - 2) :
        (/\ log[k].op = "write" /\ log[k].kind = "Ok" /\ log[k].version \in {1, 2}
         /\ log[k + 1].op = "new"
         /\ log[k + 2].op = "write")
        => (log[k + 1].kind = "Ok" /\ log[k + 2].text = log[k].text)

\* C5: a text without a marker [vN] is parsed as v1; a text whose marker
\* names a number other than 1 and 2 (300 included) fails to load and is
\* handed to neither loader.
C5_VersionDispatch ==
    (ret.op = "new" /\ IsSome(disk)) =>
        /\ ~IsSome(VersionCapture(disk[1])) => ret.route = "v1"
        /\ (/\ IsSome(VersionCapture(disk[1]))
            /\ DigitsValue(VersionCapture(disk[1])[1]) \notin {1, 2})
           => (ret.kind = "Err" /\ ret.route \notin {"v1", "v2"})

\* C6: every load ends as Ok(model) or as Err(message), never in a panic,
\* and a failed load hands the caller no model.
C6_LoadNeverPanics ==
    [][(Len(log') = Len(log) + 1 /\ ret'.op = "new")
       => (/\ ret'.kind \in {"Ok", "Err"}
           /\ ret'.kind = "Err" => imf' = imf)]_vars

\* the legend each sample legend block stands for: key -> (R, G, B), the
\* byte values of the hex pairs; a repeated key keeps its last colour
LegendOf(l) ==
    IF l = Legend1 THEN (1 :> <<127, 127, 127>>)
    ELSE IF l = Legend2 THEN (0 :> <<0, 0, 0>>) @@ (2 :> <<255, 255, 0>>)
    ELSE IF l = Legend3 THEN (3 :> <<0, 255, 1>>)
    ELSE (12 :> <<10, 11, 12>>)

\* C7: a v2 document with a legend block loads with the entry
\* key -> (R, G, B) for each of its groups key(RRGGBB); one without a legend
\* block keeps the default legend.
C7_LegendBytes ==
    (ret.op = "new" /\ ret.kind = "Ok") =>
        /\ \A l \in Legends :
               disk = Some(V2Text(Tag(2), 2, 1, l, Cells(2, FALSE)))
                   => imf[1].colors = LegendOf(l)
        /\ \A d \in Dims :
               disk = Some(CountDoc(2, d, d[1] * d[2]))
                   => imf[1].colors = DefaultColors

\* C8: writing a model whose version is neither 1 nor 2 returns success and
\* leaves what the path held unchanged.
C8_UnsupportedWriteIsNoOp ==
    [][(/\ Len(log') = Len(log) + 1
        /\ ret'.op = "write"
        /\ imf[1].version \notin {1, 2}
        /\ IsSome(disk))
       => (ret'.kind = "Ok" /\ disk' = disk)]_vars

\* C9: on a grid with width, height >= 1 and width*height cells, xy2i and
\* i2xy are inverse to each other on the valid coordinates and indices, and
\* i2xy fails from index width*height on.
C9_MutualInverses ==
    (/\ IsSome(imf)
     /\ imf[1].width >= 1
     /\ imf[1].height >= 1
     /\ Len(imf[1].map) = imf[1].width * imf[1].height) =>
        /\ \A x \in 0..(imf[1].width - 1), y \in 0..(imf[1].height - 1) :
               /\ ~xy2i_panics(imf[1], x, y)
               /\ IsSome(xy2i(imf[1], x, y))
               /\ i2xy(imf[1], xy2i(imf[1], x, y)[1]) = Some(<<x, y>>)
        /\ \A i \in 0..(Len(imf[1].map) - 1) :
               /\ IsSome(i2xy(imf[1], i))
               /\ xy2i(imf[1], i2xy(imf[1], i)[1][1], i2xy(imf[1], i)[1][2]) = Some(i)
        /\ \A i \in Len(imf[1].map)..(Len(imf[1].map) + 2) : i2xy(imf[1], i) = None
        /\ (ret.op = "i2xy" /\ ret.args[1] >= Len(imf[1].map)) => ret.kind = "None"
        /\ (ret.op = "i2xy" /\ ret.kind = "Some") =>
               xy2i(imf[1], ret.val[1][1], ret.val[1][2]) = Some(ret.args[1])

\* a call i2xy(5) on the 3x2 grid has answered (2, 1), which xy2i maps back
C9_Witness ==
    /\ IsSome(imf)
    /\ imf[1].width = 3
    /\ imf[1].height = 2
    /\ ret.op = "i2xy"
    /\ ret.args = <<5>>
    /\ ret.val = Some(<<2, 1>>)
    /\ xy2i(imf[1], 2, 1) = Some(5)

\* C10: after default() or a successful load, and after any number of
\* set_xy calls, the map has width * height cells, and no set_xy call
\* changes the width or the height.
C10_CellCount ==
    /\ [](IsSome(imf) => Len(imf[1].map) = imf[1].width * imf[1].height)
    /\ [][(nsets' = nsets + 1) =>
              (imf'[1].width = imf[1].width /\ imf'[1].height = imf[1].height)]_vars

====
